---- MODULE Spec2Model ----
(***************************************************************************)
(* Model of lab-3/motor-control/motor-control.ino: a bang-bang DC motor    *)
(* speed regulator for an AVR (ATmega328P) board.                          *)
(*                                                                         *)
(* Three execution contexts: the main program (setup, then loop forever),  *)
(* ISR(TIMER1_COMPA_vect), which samples the encoder pin, and              *)
(* ISR(TIMER2_COMPA_vect), which runs the control cycle on a decimated     *)
(* schedule.  The AVR enters an interrupt handler with the global          *)
(* interrupt flag (SREG.I) cleared and sets it again on return, and an     *)
(* int is 16 bits wide and a float a 4-byte IEEE-754 single.               *)
(***************************************************************************)
EXTENDS Integers, Sequences, FiniteSets, TLC

(***************************************************************************)
(* Bounds of the model.                                                    *)
(***************************************************************************)
\* edges the encoder produces in one run of the interleaving model
MaxEdges == 3
\* TIMER2 firings in one run of the interleaving model
MaxFirings == 11
\* largest pulse count a control cycle is started with in SpecCycle
MaxCycleCount == 26
\* largest magnitude of the raw control action given to the clamp in SpecPure
MaxRawExcess == 300

(***************************************************************************)
(* Program constants.                                                      *)
(***************************************************************************)
include_time_in_data == FALSE
minimum_control_action == 0
maximum_control_action == 250
\* the bounds configured for the integrator term (lines 18-19); no statement
\* of the sketch reads them
min_accumulated_error == 0
max_accumulated_error == 500
initialMotorSetpoint == 20
\* the threshold of the decimating test  divide_frequency_counter >= 5
Divisor == 5
\* map(analogRead(A0), 0, 1023, 0, 50)
AnalogMax == 1023
SetpointMax == 50
\* width of int / unsigned int on the AVR
IntBits == 16

Pow2[n \in Nat] == IF n = 0 THEN 1 ELSE 2 * Pow2[n - 1]

RECURSIVE Pow10(_)
Pow10(n) == IF n = 0 THEN 1 ELSE 10 * Pow10(n - 1)

\* unsigned int arithmetic wraps modulo 2^16
ToUnsigned(x) == x % Pow2[IntBits]

\* conversion of an unsigned int to int (two's complement, same width)
ToInt(x) == IF x % Pow2[IntBits] >= Pow2[IntBits - 1]
            THEN (x % Pow2[IntBits]) - Pow2[IntBits]
            ELSE x % Pow2[IntBits]

(***************************************************************************)
(* IEEE-754 single precision, as the four bytes the AVR keeps in memory    *)
(* (little endian: byte 1 of the tuple is the lowest address).  A float is *)
(* handled as [sign, exp, mant] with an 8-bit biased exponent and a 23-bit *)
(* mantissa field.                                                         *)
(***************************************************************************)
FloatFields(s, e, m) == [sign |-> s, exp |-> e, mant |-> m]

\* position of the highest set bit of n >= 1
RECURSIVE Log2(_)
Log2(n) == IF n <= 1 THEN 0 ELSE 1 + Log2(n \div 2)

\* (float) n for an int n; exact, since |n| < 2^24
IntToFloat(n) ==
  LET mag == IF n < 0 THEN -n ELSE n
      e == Log2(mag)
  IN  IF mag = 0 THEN FloatFields(0, 0, 0)
      ELSE FloatFields(IF n < 0 THEN 1 ELSE 0, e + 127, (mag - Pow2[e]) * Pow2[23 - e])

FloatToBytes(f) ==
  << f.mant % 256,
     (f.mant \div 256) % 256,
     (f.exp % 2) * 128 + (f.mant \div 65536),
     f.sign * 128 + (f.exp \div 2) >>

BytesToFloat(b) ==
  FloatFields(b[4] \div 128,
              (b[4] % 128) * 2 + (b[3] \div 128),
              (b[3] % 128) * 65536 + b[2] * 256 + b[1])

IsNaN(f) == f.exp = 255 /\ f.mant # 0
IsZero(f) == f.exp = 0 /\ f.mant = 0

\* magnitude order of two floats of the same sign: by exponent, then mantissa
MagLess(a, b) == a.exp < b.exp \/ (a.exp = b.exp /\ a.mant < b.mant)

\* the float comparison a < b
FloatLess(a, b) ==
  IF IsNaN(a) \/ IsNaN(b) THEN FALSE
  ELSE IF IsZero(a) /\ IsZero(b) THEN FALSE
  ELSE IF a.sign # b.sign THEN a.sign = 1
  ELSE IF a.sign = 0 THEN MagLess(a, b)
  ELSE MagLess(b, a)

\* the number of trailing zero bits of m >= 1
TrailingZeros[m \in Nat] == IF m % 2 = 1 THEN 0 ELSE 1 + TrailingZeros[m \div 2]

\* a finite float >= 0 as a reduced fraction num / den, den a power of two
\* (a value below 2^-30 is given as 0: it prints as 0.00)
FloatToFraction(f) ==
  LET M == IF f.exp = 0 THEN f.mant ELSE f.mant + Pow2[23]
      E == (IF f.exp = 0 THEN 1 ELSE f.exp) - 150
      tz == IF M = 0 THEN 0 ELSE TrailingZeros[M]
      odd == IF M = 0 THEN 0 ELSE M \div Pow2[tz]
      sh == E + tz
  IN  IF M = 0 THEN [num |-> 0, den |-> 1]
      ELSE IF sh >= 0 THEN [num |-> odd * Pow2[sh], den |-> 1]
      ELSE IF -sh > 30 THEN [num |-> 0, den |-> 1]
      ELSE [num |-> odd, den |-> Pow2[-sh]]

(***************************************************************************)
(* Serial printing (Print::print of the Arduino core, called at lines      *)
(* 149-168).                                                               *)
(***************************************************************************)
Digit(d) == << "0", "1", "2", "3", "4", "5", "6", "7", "8", "9" >>[d + 1]

RECURSIVE PrintUnsigned(_)
PrintUnsigned(n) == IF n < 10 THEN Digit(n) ELSE PrintUnsigned(n \div 10) \o Digit(n % 10)

\* Serial.print(int): decimal, with a leading minus sign when negative
PrintInt(n) == IF n < 0 THEN "-" \o PrintUnsigned(-n) ELSE PrintUnsigned(n)

\* the digits after the decimal point: remainder r of unit u, `digits` of them
RECURSIVE PrintFraction(_, _, _)
PrintFraction(r, u, digits) ==
  IF digits = 0 THEN ""
  ELSE Digit((r * 10) \div u) \o PrintFraction((r * 10) % u, u, digits - 1)

\* Serial.print(double, digits) of num/den >= 0: adds 0.5/10^digits, prints the
\* integer part, a point, and then `digits` digits by repeated multiplication
PrintFloat(num, den, digits) ==
  LET u == den * 2 * Pow10(digits)
      n == num * 2 * Pow10(digits) + den
  IN  PrintUnsigned(n \div u)
        \o (IF digits > 0 THEN "." \o PrintFraction(n % u, u, digits) ELSE "")

\* Serial.print(float) prints two decimals
PrintSetpoint(f) == LET q == FloatToFraction(f) IN PrintFloat(q.num, q.den, 2)

(***************************************************************************)
(* The control law, lines 25-32.  The arguments are passed by reference;   *)
(* the result carries their values on return next to the returned value.   *)
(***************************************************************************)
CalculateControlActionNotAbove(count, sp, error_sum) ==
  [ret |-> IF ~FloatLess(sp, IntToFloat(count))
           THEN maximum_control_action ELSE minimum_control_action,
   currentCount |-> count, setpoint |-> sp, error_sum |-> error_sum]

CalculateControlActionStoresError(count, sp, error_sum) ==
  [ret |-> IF FloatLess(IntToFloat(count), sp)
           THEN maximum_control_action ELSE minimum_control_action,
   currentCount |-> count, setpoint |-> sp, error_sum |-> IntToFloat(count)]

CalculateControlAction(count, sp, error_sum) ==
  [ret |-> IF FloatLess(IntToFloat(count), sp)
           THEN maximum_control_action ELSE minimum_control_action,
   currentCount |-> count, setpoint |-> sp, error_sum |-> error_sum]

\* the limiter of lines 138-141
ClampNoLower(ca) ==
  IF ca > maximum_control_action THEN maximum_control_action ELSE ca

Clamp(ca) ==
  IF ca < minimum_control_action THEN minimum_control_action
  ELSE IF ca > maximum_control_action THEN maximum_control_action
  ELSE ca

\* map(x, in_min, in_max, out_min, out_max) of the Arduino core, on longs;
\* C division truncates toward zero
TruncDiv(a, b) == IF a >= 0 THEN a \div b ELSE -((-a) \div b)

mapRounded(x, in_min, in_max, out_min, out_max) ==
  TruncDiv((x - in_min) * (out_max - out_min) + (in_max - in_min) \div 2, in_max - in_min) + out_min

map(x, in_min, in_max, out_min, out_max) ==
  TruncDiv((x - in_min) * (out_max - out_min), in_max - in_min) + out_min

RECURSIVE GCD(_, _)
GCD(a, b) == IF b = 0 THEN a ELSE GCD(b, a % b)

\* the telemetry line of lines 145-168, without the line ending; us is micros()
TelemetryLineUnscaled(us, count, sp, ca) ==
  (IF include_time_in_data
   THEN LET g == GCD(1000000, us) IN PrintFloat(us \div g, 1000000 \div g, 4) \o ","
   ELSE "")
    \o PrintInt(count) \o ".0"
    \o "," \o PrintSetpoint(sp)
    \o "," \o PrintFloat(ca, 1, 2)

TelemetryLine(us, count, sp, ca) ==
  (IF include_time_in_data
   THEN LET g == GCD(1000000, us) IN PrintFloat(us \div g, 1000000 \div g, 4) \o ","
   ELSE "")
    \o PrintInt(count) \o ".0"
    \o "," \o PrintSetpoint(sp)
    \o "," \o PrintFloat(ca, 10, 2)

(***************************************************************************)
(* State.                                                                  *)
(***************************************************************************)
VARIABLES
  \* globals of the sketch (lines 50-57, 119)
  encoderCurrentValue, encoderCounts, lastStateHigh, setpoint, accumulated_error,
  divide_frequency_counter,
  \* hardware: SREG.I, the compare-match interrupt enables of the two timers,
  \* the encoder-independent outputs (PWM duty, last line sent to the serial port)
  iflag, timsk1, timsk2, pwm, serialLine,
  \* main program: position, and the float store in progress at line 98
  pcMain, storeVal, storePending,
  \* ISR(TIMER2_COMPA_vect): position and locals
  pcT2, currentCount, control_action,
  \* history: what has happened so far
  event, totalEdges, snapshotSum, firings, cycles, lastCycleAt, prevCycleAt, lines,
  \* the input and result of a function applied on its own (SpecPure)
  probe

progVars == << encoderCurrentValue, encoderCounts, lastStateHigh, setpoint,
               accumulated_error, divide_frequency_counter >>
hwVars   == << iflag, timsk1, timsk2, pwm, serialLine >>
mainVars == << pcMain, storeVal, storePending >>
t2Vars   == << pcT2, currentCount, control_action >>
histVars == << event, totalEdges, snapshotSum, firings, cycles, lastCycleAt,
               prevCycleAt, lines >>
vars == << progVars, hwVars, mainVars, t2Vars, histVars, probe >>

\* analog readings the main loop is given
RawInputs == {0, 410}
\* values of micros() the control cycle is given
MicrosValues == {50000}
\* encoder pin levels
Levels == {0, 1}

NoProbe == [kind |-> "none", args |-> << >>, out |-> << >>]

\* the state after the static initialisers (lines 50-57, 119) and the core's
\* init(), which enables interrupts before setup() runs
InitProgram ==
  /\ encoderCurrentValue = 0
  /\ encoderCounts = 0
  /\ lastStateHigh = FALSE
  /\ setpoint = FloatToBytes(IntToFloat(0))
  /\ accumulated_error = IntToFloat(0)
  /\ divide_frequency_counter = 0
  /\ iflag = TRUE /\ timsk1 = FALSE /\ timsk2 = FALSE
  /\ pwm = 0 /\ serialLine = ""
  /\ pcMain = "setup" /\ storeVal = setpoint /\ storePending = {}
  /\ pcT2 = "idle" /\ currentCount = 0 /\ control_action = 0
  /\ event = "init" /\ totalEdges = 0 /\ snapshotSum = 0 /\ firings = 0
  /\ cycles = 0 /\ lastCycleAt = 0 /\ prevCycleAt = 0 /\ lines = 0

Init == InitProgram /\ probe = NoProbe

(***************************************************************************)
(* ISR(TIMER1_COMPA_vect), lines 64-77.  It runs with SREG.I cleared and   *)
(* enables nothing, so it is one step.                                     *)
(***************************************************************************)
\* lines 70-76: the new Pulse Counter and Last Edge Level for a sampled level
EdgeDetectKeepsLevelOnFall(last, level, counts) ==
  IF last /\ level = 0
  THEN [encoderCounts |-> ToUnsigned(counts + 1), lastStateHigh |-> last]
  ELSE IF ~last /\ level = 1
  THEN [encoderCounts |-> ToUnsigned(counts + 1), lastStateHigh |-> TRUE]
  ELSE [encoderCounts |-> counts, lastStateHigh |-> last]

EdgeDetectRisingOnly(last, level, counts) ==
  IF last /\ level = 0
  THEN [encoderCounts |-> counts, lastStateHigh |-> FALSE]
  ELSE IF ~last /\ level = 1
  THEN [encoderCounts |-> ToUnsigned(counts + 1), lastStateHigh |-> TRUE]
  ELSE [encoderCounts |-> counts, lastStateHigh |-> last]

EdgeDetect(last, level, counts) ==
  IF last /\ level = 0
  THEN [encoderCounts |-> ToUnsigned(counts + 1), lastStateHigh |-> FALSE]
  ELSE IF ~last /\ level = 1
  THEN [encoderCounts |-> ToUnsigned(counts + 1), lastStateHigh |-> TRUE]
  ELSE [encoderCounts |-> counts, lastStateHigh |-> last]

Timer1 ==
  /\ iflag /\ timsk1
  /\ \E level \in Levels :
       LET r == EdgeDetect(lastStateHigh, level, encoderCounts)
       IN  /\ ((level = 1) # lastStateHigh) => totalEdges < MaxEdges
           /\ encoderCurrentValue' = level
           /\ encoderCounts' = r.encoderCounts
           /\ lastStateHigh' = r.lastStateHigh
           /\ totalEdges' = totalEdges + (IF r.encoderCounts # encoderCounts THEN 1 ELSE 0)
  /\ event' = "timer1"
  /\ UNCHANGED << setpoint, accumulated_error, divide_frequency_counter >>
  /\ UNCHANGED << hwVars, mainVars, t2Vars, probe >>
  /\ UNCHANGED << snapshotSum, firings, cycles, lastCycleAt, prevCycleAt, lines >>

(***************************************************************************)
(* ISR(TIMER2_COMPA_vect), lines 121-172, statement by statement.          *)
(***************************************************************************)
\* SREG.I on entry to a handler declared with ISR(vector): the hardware has
\* cleared it, and the handler does not set it again before it returns
IsrEntryIFlagNoBlock == TRUE
IsrEntryIFlag == FALSE

\* line 123
DecimationDueLate(counter) == counter > Divisor

DecimationDueEarly(counter) == counter >= Divisor - 1
DecimationDue(counter) == counter >= Divisor

\* line 132: the value the Pulse Counter is given after the snapshot
ResetKeepsCount(counts) == counts
ResetCount(counts) == 0

\* lines 121-125: entry, the decimating test and the reset of the counter
T2Enter ==
  /\ iflag /\ timsk2 /\ pcT2 = "idle" /\ firings < MaxFirings
  /\ iflag' = IsrEntryIFlag
  /\ firings' = firings + 1
  /\ IF DecimationDue(divide_frequency_counter)
     THEN /\ divide_frequency_counter' = 0
          /\ pcT2' = "snapshot"
          /\ cycles' = cycles + 1
          /\ prevCycleAt' = lastCycleAt
          /\ lastCycleAt' = firings + 1
     ELSE /\ pcT2' = "exit"
          /\ UNCHANGED << divide_frequency_counter, cycles, prevCycleAt, lastCycleAt >>
  /\ event' = "timer2"
  /\ UNCHANGED << encoderCurrentValue, encoderCounts, lastStateHigh, setpoint,
                  accumulated_error >>
  /\ UNCHANGED << timsk1, timsk2, pwm, serialLine, mainVars, currentCount,
                  control_action, totalEdges, snapshotSum, lines, probe >>

\* line 131
T2SnapshotClearsEdgeLevel ==
  /\ pcT2 = "snapshot"
  /\ currentCount' = ToInt(encoderCounts)
  /\ lastStateHigh' = FALSE
  /\ pcT2' = "reset"
  /\ event' = "timer2"
  /\ UNCHANGED << encoderCurrentValue, encoderCounts, setpoint, accumulated_error,
                  divide_frequency_counter >>
  /\ UNCHANGED << hwVars, mainVars, control_action, probe >>
  /\ UNCHANGED << totalEdges, snapshotSum, firings, cycles, lastCycleAt, prevCycleAt, lines >>

T2Snapshot ==
  /\ pcT2 = "snapshot"
  /\ currentCount' = ToInt(encoderCounts)
  /\ pcT2' = "reset"
  /\ event' = "timer2"
  /\ UNCHANGED << progVars, hwVars, mainVars, control_action, probe >>
  /\ UNCHANGED << totalEdges, snapshotSum, firings, cycles, lastCycleAt, prevCycleAt, lines >>

\* line 132
T2Reset ==
  /\ pcT2 = "reset"
  /\ encoderCounts' = ResetCount(encoderCounts)
  /\ snapshotSum' = snapshotSum + currentCount
  /\ pcT2' = "law"
  /\ event' = "timer2"
  /\ UNCHANGED << encoderCurrentValue, lastStateHigh, setpoint, accumulated_error,
                  divide_frequency_counter >>
  /\ UNCHANGED << hwVars, mainVars, currentCount, control_action, probe >>
  /\ UNCHANGED << totalEdges, firings, cycles, lastCycleAt, prevCycleAt, lines >>

\* line 135
T2Law ==
  /\ pcT2 = "law"
  /\ LET r == CalculateControlAction(currentCount, BytesToFloat(setpoint), accumulated_error)
     IN  /\ control_action' = r.ret
         /\ currentCount' = r.currentCount
         /\ setpoint' = FloatToBytes(r.setpoint)
         /\ accumulated_error' = r.error_sum
  /\ pcT2' = "clamp"
  /\ event' = "timer2"
  /\ UNCHANGED << encoderCurrentValue, encoderCounts, lastStateHigh,
                  divide_frequency_counter >>
  /\ UNCHANGED << hwVars, mainVars, probe >>
  /\ UNCHANGED << totalEdges, snapshotSum, firings, cycles, lastCycleAt, prevCycleAt, lines >>

\* lines 138-141
T2Clamp ==
  /\ pcT2 = "clamp"
  /\ control_action' = Clamp(control_action)
  /\ pcT2' = "write"
  /\ event' = "timer2"
  /\ UNCHANGED << progVars, hwVars, mainVars, currentCount, probe >>
  /\ UNCHANGED << totalEdges, snapshotSum, firings, cycles, lastCycleAt, prevCycleAt, lines >>

\* line 144
T2WriteDeferred ==
  /\ pcT2 = "write"
  /\ pcT2' = "print"
  /\ event' = "timer2"
  /\ UNCHANGED << progVars, hwVars, mainVars, currentCount, control_action, probe >>
  /\ UNCHANGED << totalEdges, snapshotSum, firings, cycles, lastCycleAt, prevCycleAt, lines >>

T2Write ==
  /\ pcT2 = "write"
  /\ pwm' = control_action
  /\ pcT2' = "print"
  /\ event' = "timer2"
  /\ UNCHANGED << progVars, iflag, timsk1, timsk2, serialLine, mainVars,
                  currentCount, control_action, probe >>
  /\ UNCHANGED << totalEdges, snapshotSum, firings, cycles, lastCycleAt, prevCycleAt, lines >>

\* lines 145-168
T2Print ==
  /\ pcT2 = "print"
  /\ \E us \in MicrosValues :
       serialLine' = TelemetryLine(us, currentCount, BytesToFloat(setpoint), control_action)
  /\ lines' = lines + 1
  /\ pcT2' = "exit"
  /\ event' = "timer2"
  /\ UNCHANGED << progVars, iflag, timsk1, timsk2, pwm, mainVars,
                  currentCount, control_action, probe >>
  /\ UNCHANGED << totalEdges, snapshotSum, firings, cycles, lastCycleAt, prevCycleAt >>

\* line 171 and the return from the handler
T2ExitPrints ==
  /\ pcT2 = "exit"
  /\ divide_frequency_counter' = ToUnsigned(divide_frequency_counter + 1)
  /\ \E us \in MicrosValues :
       serialLine' = TelemetryLine(us, currentCount, BytesToFloat(setpoint), control_action)
  /\ lines' = lines + 1
  /\ iflag' = TRUE
  /\ pcT2' = "idle"
  /\ event' = "timer2"
  /\ UNCHANGED << encoderCurrentValue, encoderCounts, lastStateHigh, setpoint, accumulated_error >>
  /\ UNCHANGED << timsk1, timsk2, pwm, mainVars, currentCount, control_action, probe >>
  /\ UNCHANGED << totalEdges, snapshotSum, firings, cycles, lastCycleAt, prevCycleAt >>

T2ExitIncrementInsideIf ==
  /\ pcT2 = "exit"
  /\ divide_frequency_counter' =
       (IF lastCycleAt = firings /\ cycles > 0
        THEN ToUnsigned(divide_frequency_counter + 1)
        ELSE divide_frequency_counter)
  /\ iflag' = TRUE
  /\ pcT2' = "idle"
  /\ event' = "timer2"
  /\ UNCHANGED << encoderCurrentValue, encoderCounts, lastStateHigh, setpoint,
                  accumulated_error >>
  /\ UNCHANGED << timsk1, timsk2, pwm, serialLine, mainVars, currentCount,
                  control_action, probe >>
  /\ UNCHANGED << totalEdges, snapshotSum, firings, cycles, lastCycleAt, prevCycleAt, lines >>

\* line 171 and the return from the handler
T2ExitElseIncrement ==
  /\ pcT2 = "exit"
  /\ divide_frequency_counter' =
       (IF lastCycleAt = firings THEN divide_frequency_counter
        ELSE ToUnsigned(divide_frequency_counter + 1))
  /\ iflag' = TRUE
  /\ pcT2' = "idle"
  /\ event' = "timer2"
  /\ UNCHANGED << encoderCurrentValue, encoderCounts, lastStateHigh, setpoint,
                  accumulated_error >>
  /\ UNCHANGED << timsk1, timsk2, pwm, serialLine, mainVars, currentCount,
                  control_action, probe >>
  /\ UNCHANGED << totalEdges, snapshotSum, firings, cycles, lastCycleAt, prevCycleAt, lines >>

\* line 171 and the return from the handler, which sets SREG.I again
T2Exit ==
  /\ pcT2 = "exit"
  /\ divide_frequency_counter' = ToUnsigned(divide_frequency_counter + 1)
  /\ iflag' = TRUE
  /\ pcT2' = "idle"
  /\ event' = "timer2"
  /\ UNCHANGED << encoderCurrentValue, encoderCounts, lastStateHigh, setpoint,
                  accumulated_error >>
  /\ UNCHANGED << timsk1, timsk2, pwm, serialLine, mainVars, currentCount,
                  control_action, probe >>
  /\ UNCHANGED << totalEdges, snapshotSum, firings, cycles, lastCycleAt, prevCycleAt, lines >>

(***************************************************************************)
(* The main program, lines 80-115.  It runs only while no handler does.    *)
(***************************************************************************)
\* lines 81-89: the timers are not running yet when setpoint is assigned
Setup1 ==
  /\ pcT2 = "idle" /\ pcMain = "setup"
  /\ setpoint' = FloatToBytes(IntToFloat(initialMotorSetpoint))
  /\ timsk1' = TRUE
  /\ pcMain' = "setup2"
  /\ event' = "setup"
  /\ UNCHANGED << encoderCurrentValue, encoderCounts, lastStateHigh,
                  accumulated_error, divide_frequency_counter >>
  /\ UNCHANGED << iflag, timsk2, pwm, serialLine, storeVal, storePending, t2Vars, probe >>
  /\ UNCHANGED << totalEdges, snapshotSum, firings, cycles, lastCycleAt, prevCycleAt, lines >>

\* line 90
Setup2StartsMotor ==
  /\ pcT2 = "idle" /\ pcMain = "setup2"
  /\ timsk2' = TRUE
  /\ pwm' = maximum_control_action
  /\ pcMain' = "read"
  /\ event' = "setup"
  /\ UNCHANGED << progVars, iflag, timsk1, serialLine, storeVal, storePending,
                  t2Vars, probe >>
  /\ UNCHANGED << totalEdges, snapshotSum, firings, cycles, lastCycleAt, prevCycleAt, lines >>

Setup2 ==
  /\ pcT2 = "idle" /\ pcMain = "setup2"
  /\ timsk2' = TRUE
  /\ pcMain' = "read"
  /\ event' = "setup"
  /\ UNCHANGED << progVars, iflag, timsk1, pwm, serialLine, storeVal, storePending,
                  t2Vars, probe >>
  /\ UNCHANGED << totalEdges, snapshotSum, firings, cycles, lastCycleAt, prevCycleAt, lines >>

\* line 98, right-hand side: the mapped reading, converted to float
LoopSetpoint(raw) == IntToFloat(map(raw, 0, AnalogMax, 0, SetpointMax))

LoopRead ==
  /\ pcT2 = "idle" /\ pcMain = "read"
  /\ \E raw \in RawInputs : storeVal' = FloatToBytes(LoopSetpoint(raw))
  /\ storePending' = 1..4
  /\ pcMain' = "store"
  /\ event' = "loop"
  /\ UNCHANGED << progVars, hwVars, t2Vars, probe >>
  /\ UNCHANGED << totalEdges, snapshotSum, firings, cycles, lastCycleAt, prevCycleAt, lines >>

\* line 98, the assignment: four one-byte stores, with interrupts enabled;
\* the order of the stores is the compiler's choice
LoopStore ==
  /\ pcT2 = "idle" /\ pcMain = "store"
  /\ \E i \in storePending :
       /\ setpoint' = [setpoint EXCEPT ![i] = storeVal[i]]
       /\ storePending' = storePending \ {i}
       /\ pcMain' = IF storePending = {i} THEN "delay" ELSE "store"
  /\ event' = "loop"
  /\ UNCHANGED << encoderCurrentValue, encoderCounts, lastStateHigh,
                  accumulated_error, divide_frequency_counter >>
  /\ UNCHANGED << hwVars, storeVal, t2Vars, probe >>
  /\ UNCHANGED << totalEdges, snapshotSum, firings, cycles, lastCycleAt, prevCycleAt, lines >>

\* line 99
LoopDelay ==
  /\ pcT2 = "idle" /\ pcMain = "delay"
  /\ pcMain' = "read"
  /\ event' = "loop"
  /\ UNCHANGED << progVars, hwVars, storeVal, storePending, t2Vars, probe >>
  /\ UNCHANGED << totalEdges, snapshotSum, firings, cycles, lastCycleAt, prevCycleAt, lines >>

Next ==
  \/ Setup1 \/ Setup2 \/ LoopRead \/ LoopStore \/ LoopDelay
  \/ Timer1
  \/ T2Enter \/ T2Snapshot \/ T2Reset \/ T2Law \/ T2Clamp \/ T2Write \/ T2Print \/ T2Exit

Spec == Init /\ [][Next]_vars

(***************************************************************************)
(* SpecFair: the interleaving model with the scheduling the hardware gives.*)
(* The processor keeps executing the main program and a handler it has     *)
(* entered, and TIMER2 keeps reaching its compare value, so setup and each *)
(* step of ISR(TIMER2_COMPA_vect) is taken once it stays enabled (at most  *)
(* one step of the main program and one of the handler is enabled at a     *)
(* time).                                                                  *)
(***************************************************************************)
Main == Setup1 \/ Setup2 \/ LoopRead \/ LoopStore \/ LoopDelay
Timer2 ==
  T2Enter \/ T2Snapshot \/ T2Reset \/ T2Law \/ T2Clamp \/ T2Write \/ T2Print \/ T2Exit

Fairness == WF_vars(Main) /\ WF_vars(Timer2)

SpecFair == Init /\ [][Next]_vars /\ Fairness

(***************************************************************************)
(* SpecCycle: the Decimating Scheduler alone, started where five firings   *)
(* have passed since start, the main program sits in delay(250) and the    *)
(* Edge-Sampling Timer has counted some number of edges.                   *)
(***************************************************************************)
\* setpoints the main program has written in full: line 86 and line 98
CycleSetpoints == {initialMotorSetpoint} \cup {map(r, 0, AnalogMax, 0, SetpointMax) : r \in RawInputs}

InitCycle ==
  /\ encoderCounts \in 0..MaxCycleCount
  /\ lastStateHigh = (encoderCounts % 2 = 1)
  /\ encoderCurrentValue = encoderCounts % 2
  /\ setpoint \in {FloatToBytes(IntToFloat(v)) : v \in CycleSetpoints}
  /\ accumulated_error = IntToFloat(0)
  /\ divide_frequency_counter = Divisor
  /\ iflag = TRUE /\ timsk1 = TRUE /\ timsk2 = TRUE
  /\ pwm = 0 /\ serialLine = ""
  /\ pcMain = "delay" /\ storeVal = setpoint /\ storePending = {}
  /\ pcT2 = "idle" /\ currentCount = 0 /\ control_action = 0
  /\ event = "timer2" /\ totalEdges = encoderCounts /\ snapshotSum = 0
  /\ firings = Divisor /\ cycles = 0 /\ lastCycleAt = 0 /\ prevCycleAt = 0 /\ lines = 0
  /\ probe = NoProbe

NextCycle ==
  \/ T2Enter \/ T2Snapshot \/ T2Reset \/ T2Law \/ T2Clamp \/ T2Write \/ T2Print \/ T2Exit

SpecCycle == InitCycle /\ [][NextCycle]_vars

(***************************************************************************)
(* SpecPure: the functions of the sketch applied on their own to inputs    *)
(* drawn from bounded sets.                                                *)
(***************************************************************************)
\* measured counts and setpoints given to the control law: the values around
\* the setpoints the program writes, and setpoints a whole number is not
ProbeCounts == {-1, 0, 1, 12, 13, 19, 20, 21, 49, 50, 51, 79, 80, 81}
ProbeSetpoints ==
  {IntToFloat(v) : v \in {0, 1, 20, 50, 80}}
    \cup {BytesToFloat(b) : b \in {<<0, 0, 72, 65>>, <<0, 0, 0, 63>>, <<255, 255, 159, 65>>,
                                    <<1, 0, 160, 65>>, <<0, 0, 160, 0>>}}
ProbeErrors == {IntToFloat(0), IntToFloat(7)}

ProbeInputs ==
  {[kind |-> "clamp", args |-> <<r>>, out |-> << >>] :
     r \in (minimum_control_action - MaxRawExcess)..(maximum_control_action + MaxRawExcess)}
  \cup {[kind |-> "map", args |-> <<r>>, out |-> << >>] : r \in 0..AnalogMax}
  \cup {[kind |-> "law", args |-> <<c, sp, e>>, out |-> << >>] :
          c \in ProbeCounts, sp \in ProbeSetpoints, e \in ProbeErrors}

InitPure == InitProgram /\ probe \in ProbeInputs

\* lines 138-144: the limiter, and the write of its result to the PWM output
ApplyClamp ==
  /\ probe.kind = "clamp" /\ probe.out = << >>
  /\ probe' = [probe EXCEPT !.out = <<Clamp(probe.args[1])>>]
  /\ pwm' = Clamp(probe.args[1])
  /\ UNCHANGED << progVars, iflag, timsk1, timsk2, serialLine, mainVars, t2Vars, histVars >>

\* line 98
ApplyMap ==
  /\ probe.kind = "map" /\ probe.out = << >>
  /\ probe' = [probe EXCEPT !.out = <<LoopSetpoint(probe.args[1])>>]
  /\ UNCHANGED << progVars, hwVars, mainVars, t2Vars, histVars >>

\* lines 25-32
ApplyLaw ==
  /\ probe.kind = "law" /\ probe.out = << >>
  /\ probe' = [probe EXCEPT
                 !.out = <<CalculateControlAction(probe.args[1], probe.args[2], probe.args[3])>>]
  /\ UNCHANGED << progVars, hwVars, mainVars, t2Vars, histVars >>

NextPure == ApplyClamp \/ ApplyMap \/ ApplyLaw

SpecPure == InitPure /\ [][NextPure]_vars

(***************************************************************************)
(* Properties.                                                             *)
(***************************************************************************)
Float20 == FloatToBytes(IntToFloat(initialMotorSetpoint))

\* C1: no counted edge is lost and none is counted in two snapshots: the sum
\* of all snapshots taken so far plus the current Pulse Counter equals the
\* number of increments the Edge-Sampling Timer has performed, so the
\* snapshot a cycle hands to the Control Law is the number of edges counted
\* since the previous snapshot.
C1_NoEdgeLostOrDoubled == snapshotSum + encoderCounts = totalEdges

C1_Witness ==
  /\ pcT2 = "law" /\ cycles >= 2
  /\ currentCount > 0 /\ snapshotSum > currentCount

\* C2: the snapshot and the reset of Pulse Counter are indivisible with
\* respect to the Edge-Sampling Timer: between the read of line 131 and the
\* assignment of line 132 no TIMER1 handler runs, the value read is still the
\* counter's value when it is reset, and the counter is zero when the
\* Control Law is invoked.
C2_SnapshotResetIndivisible ==
  [][ /\ (pcT2 = "reset" =>
            /\ currentCount = ToInt(encoderCounts)
            /\ event' # "timer1"
            /\ encoderCounts' = 0)
      /\ (pcT2' = "law" => encoderCounts' = 0) ]_vars

C2_Witness == pcT2 = "law" /\ currentCount = MaxEdges /\ encoderCounts = 0

\* C3 as stated: one control cycle per 5 firings of TIMER2, the first on
\* the 5th firing, consecutive cycles 5 firings apart.
C3_FirstCycleOnFifthFiring ==
  /\ cycles = firings \div Divisor
  /\ cycles >= 1 => lastCycleAt - prevCycleAt = Divisor

\* C3 amended: the first control cycle runs in the 6th firing of TIMER2
\* (divisor + 1), every later one exactly 5 firings after the one before,
\* so after n >= 1 firings (n - 1) div 5 cycles have been started.
C3_FirstCycleOnSixthFiring ==
  /\ cycles = (IF firings = 0 THEN 0 ELSE (firings - 1) \div Divisor)
  /\ cycles = 1 => lastCycleAt = Divisor + 1
  /\ cycles >= 2 => lastCycleAt - prevCycleAt = Divisor
  /\ pcT2 \in {"snapshot", "reset", "law", "clamp", "write", "print"} => lastCycleAt = firings

C3_Witness == cycles = 2 /\ pcT2 = "law" /\ firings = 2 * Divisor + 1

\* the comparison c < f of an int with a finite float f >= 0, by whole-number
\* arithmetic on f = M * 2^E
IntLessFloat(c, f) ==
  LET M == IF f.exp = 0 THEN f.mant ELSE f.mant + Pow2[23]
      E == (IF f.exp = 0 THEN 1 ELSE f.exp) - 150
  IN  IF M = 0 THEN c < 0
      ELSE IF E >= 0 THEN TRUE
      ELSE IF -E > 30 THEN c <= 0
      ELSE c <= (M - 1) \div Pow2[-E]

\* C4: CalculateControlAction returns maximum_control_action (250) iff the
\* measured count is less than the setpoint and minimum_control_action (0)
\* otherwise (so 0 when they are equal), its result is 0 or 250, and its
\* by-reference arguments have their values of before the call on return.
C4_BangBangPure ==
  (probe.kind = "law" /\ probe.out # << >>) =>
    LET c == probe.args[1]
        sp == probe.args[2]
        r == probe.out[1]
    IN  /\ r.ret = maximum_control_action <=> IntLessFloat(c, sp)
        /\ r.ret = minimum_control_action <=> ~IntLessFloat(c, sp)
        /\ r.ret \in {minimum_control_action, maximum_control_action}
        /\ r.currentCount = c /\ r.setpoint = sp /\ r.error_sum = probe.args[3]

C4_Witness ==
  /\ probe.kind = "law" /\ probe.out # << >>
  /\ probe.args[1] = 20 /\ probe.args[2] = IntToFloat(20)
  /\ probe.out[1].ret = minimum_control_action

\* C5: the value written to the PWM output is in [0, 250]: the limiter maps
\* a raw control action below 0 to 0, one above 250 to 250, and leaves one
\* in the range as it is.
C5_ClampedPwm ==
  /\ pwm \in minimum_control_action..maximum_control_action
  /\ (probe.kind = "clamp" /\ probe.out # << >>) =>
       LET raw == probe.args[1]
       IN  /\ pwm = probe.out[1]
           /\ raw < 0 => pwm = 0
           /\ raw > 250 => pwm = 250
           /\ raw \in 0..250 => pwm = raw

C5_Witness ==
  /\ probe.kind = "clamp" /\ probe.out # << >>
  /\ probe.args[1] = -MaxRawExcess /\ pwm = 0

\* C6: a firing of the Edge-Sampling Timer adds exactly one to Pulse Counter
\* and sets Last Edge Level to the sampled level when that level differs
\* from Last Edge Level, and changes neither otherwise; after a firing
\* Last Edge Level is the level just sampled.
C6_EdgeSampling ==
  /\ [](event = "timer1" => (lastStateHigh <=> encoderCurrentValue = 1))
  /\ [][event' = "timer1" =>
          IF (encoderCurrentValue' = 1) # lastStateHigh
          THEN /\ encoderCounts' = encoderCounts + 1
               /\ lastStateHigh' = (encoderCurrentValue' = 1)
          ELSE /\ encoderCounts' = encoderCounts
               /\ lastStateHigh' = lastStateHigh]_vars

\* low, high, low seen by the sampler: two counts
C6_Witness ==
  /\ event = "timer1" /\ ~lastStateHigh /\ encoderCurrentValue = 0
  /\ encoderCounts = 2 /\ totalEdges = 2

\* the end-to-end scenarios with setpoint 20: snapshot 15 gives action 250
\* before and after the limiter, snapshot 25 gives 0; the PWM value is the
\* limited action and the telemetry line is as given
Scenario(line15, line25) ==
  (setpoint = Float20 /\ lastCycleAt = firings) =>
    /\ (pcT2 \in {"clamp", "write", "print", "exit"} /\ currentCount = 15) =>
         control_action = 250
    /\ (pcT2 \in {"clamp", "write", "print", "exit"} /\ currentCount = 25) =>
         control_action = 0
    /\ pcT2 \in {"print", "exit"} => pwm = control_action
    /\ (pcT2 = "exit" /\ currentCount = 15) => serialLine = line15
    /\ (pcT2 = "exit" /\ currentCount = 25) => serialLine = line25

\* C7 as stated: the telemetry lines are "15.0,20,25.0" and "25.0,20,0.0".
C7_TelemetryAsStated == Scenario("15.0,20,25.0", "25.0,20,0.0")

\* C7 amended: the setpoint and the scaled action are printed with two
\* decimals, so the lines are "15.0,20.00,25.00" and "25.0,20.00,0.00".
C7_TelemetryTwoDecimals == Scenario("15.0,20.00,25.00", "25.0,20.00,0.00")

C7_Witness ==
  /\ setpoint = Float20 /\ lastCycleAt = firings /\ pcT2 = "exit"
  /\ currentCount = 15 /\ pwm = 250 /\ serialLine = "15.0,20.00,25.00"

\* C8: every read of setpoint by a control cycle observes a value the main
\* program wrote in full (the initial setpoint of setup, or a mapped reading
\* of loop), never a partially updated one.
C8_NoTornSetpoint ==
  pcT2 \in {"law", "print"} =>
    BytesToFloat(setpoint) \in {IntToFloat(v) : v \in CycleSetpoints}

\* C9: the setpoint the main loop computes from a raw reading r in 0..1023
\* is floor(r * 50 / 1023): 0 for 0, 50 for 1023, within 0..50 and not
\* decreasing in r.
C9_LinearMap ==
  (probe.kind = "map" /\ probe.out # << >>) =>
    LET r == probe.args[1]
        q == FloatToFraction(probe.out[1])
    IN  /\ q.den = 1
        /\ q.num = (r * 50) \div 1023
        /\ q.num \in 0..50
        /\ r = 0 => q.num = 0
        /\ r = 1023 => q.num = 50
        /\ r > 0 => FloatToFraction(LoopSetpoint(r - 1)).num <= q.num

C9_Witness ==
  /\ probe.kind = "map" /\ probe.out # << >>
  /\ probe.args[1] = 1023 /\ probe.out[1] = IntToFloat(50)

\* C10: Pulse Counter is increased only by a firing of the Edge-Sampling
\* Timer, read and reset only by the control cycle (the read of line 131 is
\* followed by the reset of line 132 in the same cycle); the main program
\* changes neither Pulse Counter nor Last Edge Level, and the Decimating
\* Scheduler leaves Last Edge Level unchanged.
C10_PulseCounterOwnership ==
  [][ /\ (encoderCounts' > encoderCounts =>
            event' = "timer1" /\ encoderCounts' = encoderCounts + 1)
      /\ (encoderCounts' < encoderCounts =>
            pcT2 = "reset" /\ pcT2' = "law" /\ lastCycleAt = firings)
      /\ (currentCount' # currentCount =>
            pcT2 = "snapshot" /\ pcT2' = "reset" /\ lastCycleAt = firings)
      /\ (pcT2 = "snapshot" => pcT2' = "reset")
      /\ (pcT2 = "reset" => pcT2' = "law")
      /\ (event' \in {"setup", "loop"} =>
            encoderCounts' = encoderCounts /\ lastStateHigh' = lastStateHigh)
      /\ (event' = "timer2" => lastStateHigh' = lastStateHigh) ]_vars

C10_Witness ==
  /\ pcT2 = "law" /\ lastStateHigh /\ currentCount = MaxEdges
  /\ encoderCounts = 0 /\ pcMain = "store"


\* the states of the TIMER2 handler inside a control cycle (lines 131-168)
InCycle == pcT2 \in {"snapshot", "reset", "law", "clamp", "write", "print"}

\* C11 as stated: between firings the Decimation Counter is the number of
\* firings since the last control cycle fired (since start before the first
\* cycle), so a firing that runs a cycle leaves it at zero.
C11_CountsFiringsSinceCycle ==
  pcT2 = "idle" => divide_frequency_counter = firings - lastCycleAt

\* C11 amended: before the first control cycle the Decimation Counter is
\* the number of firings since start; afterwards it is the number of firings
\* since the last cycle fired, that firing included: a firing in which the
\* threshold is reached leaves the counter at one, every other firing
\* increments it by exactly one.
C11_CountsFiringsFromCycle ==
  /\ pcT2 = "idle" =>
       divide_frequency_counter =
         (IF cycles = 0 THEN firings ELSE firings - lastCycleAt + 1)
  /\ InCycle => divide_frequency_counter = 0
  /\ pcT2 = "exit" =>
       divide_frequency_counter =
         (IF cycles = 0 THEN firings - 1 ELSE firings - lastCycleAt)

C11_Witness ==
  /\ pcT2 = "idle" /\ cycles = 1 /\ firings = lastCycleAt
  /\ divide_frequency_counter = 1


\* C12: the control loop runs indefinitely: once enabled, neither timer
\* interrupt is ever disabled again and both are enabled when setup has
\* returned, and under fair firing of TIMER2 another control cycle
\* eventually executes and writes the PWM output from every state (here:
\* every state that leaves the model a full period of TIMER2 firings).
C12_RunsIndefinitely ==
  /\ [][(timsk1 => timsk1') /\ (timsk2 => timsk2')]_vars
  /\ [](pcMain \notin {"setup", "setup2"} => timsk1 /\ timsk2)
  /\ (firings <= MaxFirings - Divisor) ~> (pcT2 = "idle" /\ timsk2)
  /\ (pcT2 = "idle" /\ firings <= MaxFirings - Divisor)
       ~> (pcT2 = "print" /\ pwm = control_action)

C12_Witness == cycles = 2 /\ pcT2 = "print" /\ pwm = control_action /\ timsk1 /\ timsk2


\* values an integrator term could hold: its configured bounds and one between
ErrorValues ==
  {IntToFloat(min_accumulated_error), IntToFloat(7), IntToFloat(max_accumulated_error)}

\* C13: Accumulated Error is dead state: accumulated_error has its initial
\* value 0 in every state, and the control action a cycle computes is the
\* one the control law returns for any other value of the integrator term,
\* its configured bounds included, so the PWM output and the telemetry line
\* derived from it do not depend on it.
C13_AccumulatedErrorDead ==
  /\ accumulated_error = IntToFloat(0)
  /\ pcT2 = "clamp" =>
       \A e \in ErrorValues :
         LET r == CalculateControlAction(currentCount, BytesToFloat(setpoint), e)
         IN  r.ret = control_action /\ r.error_sum = e

C13_Witness ==
  /\ pcT2 = "clamp" /\ cycles = 2 /\ currentCount > 0
  /\ control_action = maximum_control_action
  /\ accumulated_error = IntToFloat(0)


\* C14: exactly one telemetry line is emitted per control cycle and none
\* outside one: the number of lines emitted is the number of control cycles
\* whose telemetry step has run (the cycles started, less the one in
\* progress), a line is emitted only by the telemetry step of a cycle, and
\* firings of TIMER2 below the threshold, firings of TIMER1 and steps of the
\* main program emit nothing.
C14_OneLinePerCycle ==
  /\ [](lines = cycles - (IF InCycle THEN 1 ELSE 0))
  /\ [][/\ (lines' # lines \/ serialLine' # serialLine) =>
            (pcT2 = "print" /\ lines' = lines + 1 /\ firings = lastCycleAt)
        /\ pcT2 = "print" => lines' = lines + 1
        /\ (pcT2 = "idle" /\ pcT2' = "exit") => (lines' = lines /\ serialLine' = serialLine)
        /\ event' \in {"timer1", "setup", "loop"} =>
            (lines' = lines /\ serialLine' = serialLine)]_vars

C14_Witness ==
  /\ lines = 2 /\ cycles = 2 /\ pcT2 = "idle" /\ divide_frequency_counter = 1
  /\ event = "timer1" /\ pcMain = "store"


\* the order of the statements of a TIMER2 firing
StepOrder ==
  { <<"idle", "snapshot">>, <<"idle", "exit">>, <<"snapshot", "reset">>,
    <<"reset", "law">>, <<"law", "clamp">>, <<"clamp", "write">>,
    <<"write", "print">>, <<"print", "exit">>, <<"exit", "idle">> }

\* C15: in every control cycle the steps run in the order snapshot and reset
\* of the Pulse Counter, control law on (snapshot, setpoint), clamp, PWM write
\* of the clamped value, telemetry of (snapshot, setpoint, clamped value);
\* all of them run in the one TIMER2 firing that reset the Decimation Counter,
\* with no other handler in between, and the PWM output already holds the
\* cycle's value when its telemetry line is emitted.
C15_CycleStepOrder ==
  /\ [](InCycle => (divide_frequency_counter = 0 /\ firings = lastCycleAt /\ ~iflag))
  /\ [](pcT2 \in {"law", "clamp", "write", "print"} => encoderCounts = 0)
  /\ [](pcT2 \in {"write", "print"} =>
          control_action =
            Clamp(CalculateControlAction(currentCount, BytesToFloat(setpoint),
                                         accumulated_error).ret))
  /\ [](pcT2 = "print" => (pwm = control_action /\ lines = cycles - 1))
  /\ [][/\ pcT2' # pcT2 => <<pcT2, pcT2'>> \in StepOrder
        /\ InCycle => (pcT2' # pcT2 /\ event' = "timer2" /\ firings' = firings)
        /\ pcT2 = "snapshot" => currentCount' = ToInt(encoderCounts)
        /\ pcT2 = "write" => (pwm' = control_action /\ lines' = lines)
        /\ pcT2 = "print" =>
             (/\ pwm' = pwm
              /\ \E us \in MicrosValues :
                   serialLine' = TelemetryLine(us, currentCount, BytesToFloat(setpoint),
                                               control_action))]_vars

C15_Witness ==
  /\ pcT2 = "print" /\ cycles = 2 /\ lines = 1 /\ currentCount = 2
  /\ pwm = maximum_control_action /\ serialLine = "0.0,20.00,25.00"


\* the setpoint as a telemetry line reports it: in hundredths, rounded as
\* Serial.print(float) rounds
ReportedHundredths(f) ==
  LET q == FloatToFraction(f) IN (q.num * 200 + q.den) \div (2 * q.den)

\* C16: within one control cycle the control law and the telemetry line use
\* the same setpoint value, so every telemetry line is self-consistent: it
\* reports the action 25.00 if and only if the count it reports is less than
\* the setpoint it reports, also when the main program rewrites setpoint
\* concurrently.
C16_LineSelfConsistent ==
  /\ [][pcT2 # "idle" => setpoint' = setpoint]_vars
  /\ []((pcT2 = "exit" /\ cycles > 0 /\ firings = lastCycleAt) =>
          serialLine = PrintInt(currentCount) \o ".0,"
                         \o PrintSetpoint(BytesToFloat(setpoint)) \o ","
                         \o (IF currentCount * 100 < ReportedHundredths(BytesToFloat(setpoint))
                             THEN "25.00" ELSE "0.00"))


\* C17: the PWM output is written only by a control cycle, once per cycle,
\* by the write step that follows the clamp: firings of TIMER1, firings of
\* TIMER2 below the threshold and steps of the main program leave it as it
\* is, so between two cycles it holds the value of the last one; every value
\* it takes is 0 or 250, and the clamp never alters the result of the
\* control law.
C17_PwmWrittenByCycleOnly ==
  /\ [](pwm \in {minimum_control_action, maximum_control_action})
  /\ []((cycles > 0 /\ pcT2 \in {"print", "exit", "idle"}) => pwm = control_action)
  /\ [][/\ pwm' # pwm => pcT2 = "write"
        /\ pcT2 = "write" => (pwm' = control_action /\ pcT2' = "print")
        /\ pcT2' = "write" => (pcT2 \in {"clamp", "write"} /\ firings = lastCycleAt)
        /\ pcT2 = "clamp" => control_action' = control_action
        /\ (pcT2 = "idle" /\ pcT2' = "exit") => pwm' = pwm
        /\ event' \in {"timer1", "setup", "loop"} => pwm' = pwm]_vars

C17_Witness ==
  /\ cycles = 2 /\ pcT2 = "idle" /\ event = "loop" /\ pcMain = "store"
  /\ pwm = minimum_control_action /\ currentCount = 1
  /\ BytesToFloat(setpoint) = IntToFloat(0)


\* C18: divide_frequency_counter never exceeds the divisor: it is in 0..5 in
\* every state, and in 1..5 at the end of every TIMER2 firing.
C18_CounterWithinDivisor ==
  /\ divide_frequency_counter \in 0..Divisor
  /\ (pcT2 = "idle" /\ firings >= 1) => divide_frequency_counter \in 1..Divisor

C18_Witness ==
  /\ pcT2 = "idle" /\ cycles = 1 /\ firings = 2 * Divisor
  /\ divide_frequency_counter = Divisor


\* C19: counted edges alternate in direction, starting with a rising edge:
\* lastStateHigh is true exactly when the number of edges counted since
\* start, across all resets of the Pulse Counter, is odd; an edge is counted
\* only by a TIMER1 firing whose sample differs from the Last Edge Level, it
\* is rising exactly when an even number of edges was counted before it, and
\* samples of an input low from start count nothing.
C19_EdgesAlternate ==
  /\ [](lastStateHigh <=> totalEdges % 2 = 1)
  /\ [][/\ totalEdges' # totalEdges =>
             (/\ event' = "timer1" /\ totalEdges' = totalEdges + 1
              /\ lastStateHigh' # lastStateHigh
              /\ lastStateHigh' = (encoderCurrentValue' = 1)
              /\ (encoderCurrentValue' = 1) <=> (totalEdges % 2 = 0))
        /\ lastStateHigh' # lastStateHigh => totalEdges' = totalEdges + 1
        /\ (event' = "timer1" /\ totalEdges = 0 /\ encoderCurrentValue' = 0) =>
             (totalEdges' = 0 /\ encoderCounts' = encoderCounts)]_vars

C19_Witness ==
  /\ totalEdges = 3 /\ lastStateHigh /\ encoderCurrentValue = 1
  /\ cycles = 1 /\ snapshotSum = 2 /\ encoderCounts = 1 /\ event = "timer1"

====
